---------------------------- MODULE Spec2Model ----------------------------
(***************************************************************************)
(* A model of backend/app/hawkes_model.py: the grid builder, the decay     *)
(* scoring and normalisation, the zonal reduction, the pickle file cache   *)
(* and predict_risk, the handler behind GET /api/predict.                  *)
(*                                                                         *)
(* Numbers.  Coordinates are whole degrees; a centroid, which may fall on  *)
(* a half degree, is kept doubled (half-degree units).  A float in [0, 1]  *)
(* or a severity is kept in hundredths (ONE = 1.00); NaN is the value NaN. *)
(* The clock counts ticks, TicksPerDay to a day; an event's date is a day. *)
(***************************************************************************)
EXTENDS Integers, Sequences, FiniteSets, TLC

VARIABLES
    gridCall,   \* one call of _make_grid: its arguments and what it returned
    riskCall,   \* one run of the scoring of predict_risk on rows already read
    clock,      \* datetime.utcnow(), in ticks
    events,     \* the events table: the indices of the pool rows it holds
    cache,      \* CACHE_DIR: cache key -> the file <key>.pkl
    req,        \* worker thread -> the predict_risk call it is running
    first,      \* history: per parameter set, the first result computed on a miss
    ncalls      \* the number of predict_risk calls started

vars == <<gridCall, riskCall, clock, events, cache, req, first, ncalls>>

svars == <<clock, events, cache, req, first, ncalls>>

-----------------------------------------------------------------------------
(* Bounds of the model. *)

MaxCoord == 3       \* bounding-box coordinates range over 0..MaxCoord
MaxCell == 3        \* cell sizes range over -1..MaxCell
MaxCalls == 2       \* predict_risk calls in one behaviour of the sequential specification
MaxConcCalls == 3   \* predict_risk calls in one behaviour of the concurrent specification
MaxTicks == 2       \* clock ticks that pass in one behaviour
MaxStored == 3      \* rows the events table grows to
NumThreads == 2     \* worker threads serving GET /api/predict

-----------------------------------------------------------------------------
(* _make_grid, hawkes_model.py 67-84 *)

\* int(math.ceil(a / b)) for b # 0
CeilDiv(a, b) ==
    IF b > 0 THEN -((-a) \div b) ELSE -(a \div (-b))

Min(a, b) == IF a <= b THEN a ELSE b

Max(a, b) == IF a >= b THEN a ELSE b

\* One cell: box(x1, y1, x2, y2) with its centroid; the centroid columns hold
\* (x1 + x2) / 2.0 and (y1 + y2) / 2.0, kept here doubled.
GridCell(x1, y1, x2, y2) ==
    [x1 |-> x1, y1 |-> y1, x2 |-> x2, y2 |-> y2,
     centroid_x |-> x1 + x2, centroid_y |-> y1 + y2]

\* The far edge of a cell that starts at lo: min(lo + cell_size_deg, max).
FarEdgeUnclipped(lo, cell_size_deg, hi) == lo + cell_size_deg

FarEdge(lo, cell_size_deg, hi) == Min(lo + cell_size_deg, hi)

\* The rows of the GeoDataFrame, in the order of the loops: i (columns) outer,
\* j (rows) inner.  range(n) is empty for n <= 0.  A cell size of 0 raises
\* ZeroDivisionError at the first division.
_make_grid(minx, miny, maxx, maxy, cell_size_deg) ==
    IF cell_size_deg = 0
    THEN [raised |-> TRUE, cells |-> <<>>]
    ELSE LET cols == CeilDiv(maxx - minx, cell_size_deg)
             rows == CeilDiv(maxy - miny, cell_size_deg)
             n == IF cols > 0 /\ rows > 0 THEN cols * rows ELSE 0
             cellAt(k) ==
                 LET i == (k - 1) \div rows
                     j == (k - 1) % rows
                     x1 == minx + i * cell_size_deg
                     y1 == miny + j * cell_size_deg
                 IN GridCell(x1, y1, FarEdge(x1, cell_size_deg, maxx),
                             FarEdge(y1, cell_size_deg, maxy))
         IN [raised |-> FALSE, cells |-> [k \in 1..n |-> cellAt(k)]]

-----------------------------------------------------------------------------
(* Fixed-point arithmetic standing for the floats of the code. *)

ONE == 100          \* 1.00: floats are kept in hundredths
TicksPerDay == 2    \* clock ticks to a day

NaN == -1           \* float('nan'); every other float of the model is >= 0

IsNaN(x) == x = NaN

\* floor(sqrt(n)) for 0 <= n, by bisection on lo..hi (hi * hi must not overflow).
RECURSIVE SqrtBisect(_, _, _)
SqrtBisect(n, lo, hi) ==
    IF lo >= hi THEN lo
    ELSE LET mid == (lo + hi + 1) \div 2
         IN IF mid * mid <= n THEN SqrtBisect(n, mid, hi)
            ELSE SqrtBisect(n, lo, mid - 1)

ISqrt(n) == SqrtBisect(n, 0, 46340)

\* e^(-q/64) in ten-thousandths, e^(-1/64) being 0.9845: by squaring.
RECURSIVE ExpSteps(_)
ExpSteps(q) ==
    IF q <= 0 THEN 10000
    ELSE IF q % 2 = 0
         THEN LET h == ExpSteps(q \div 2) IN (h * h) \div 10000
         ELSE (ExpSteps(q - 1) * 9845) \div 10000

\* math.exp(-num / den) for num >= 0, den > 0, in hundredths.
ExpNeg(num, den) == (ExpSteps((64 * num) \div den) * ONE) \div 10000

-----------------------------------------------------------------------------
(* The decay model, hawkes_model.py 29-42 and 128-161 *)

TIME_DECAY_DAYS == 30
SPATIAL_SIGMA_KM == 200
EARTH_RADIUS_KM == 6371

\* cos of a latitude given in half degrees, in thousandths: 1 - x^2/2 with
\* x = lat * pi/360 (the latitudes of the model are a few degrees).
CosMilli(lat) == 1000 - (38 * lat * lat) \div 1000

\* haversine_km on coordinates in half degrees, in whole km.  For the small
\* angles of the model 2*asin(sqrt(a)) is sqrt(dlat^2 + cos(lat1)*cos(lat2)*
\* dlon^2); one half degree of arc is EARTH_RADIUS_KM * pi / 360 km
\* (pi = 355/113).  math.asin and math.sqrt cannot raise on these inputs, so
\* the except branch (d_km = 10000.0) is not reached.
haversine_km(lon1, lat1, lon2, lat2) ==
    LET dlon == lon2 - lon1
        dlat == lat2 - lat1
        cc == (CosMilli(lat1) * CosMilli(lat2)) \div 1000
        arc100 == ISqrt(10000 * dlat * dlat + 10 * cc * dlon * dlon)
        halfDegKm100 == (EARTH_RADIUS_KM * 35500) \div 40680
    IN (halfDegKm100 * arc100) \div 10000

\* pd.to_numeric(df['nkill'], errors='coerce').fillna(0.0): a NULL or a
\* non-numeric fatality count becomes 0.
CoerceNkill(nkill) == IF nkill.valid THEN nkill.v ELSE 0

\* (1.0 + nkill) ** 0.5 on a float column: NaN for a negative base.
Severity(nk) == IF 1 + nk < 0 THEN NaN ELSE ISqrt((1 + nk) * ONE * ONE)

\* tdays.clip(lower=0.0) then exp(-t / TIME_DECAY_DAYS); now in ticks, date a day.
TDecay(now, date) ==
    ExpNeg(Max(0, now - date * TicksPerDay), TIME_DECAY_DAYS * TicksPerDay)

\* Lines 129-140: the columns added to the rows read from the event store.
Prepare(df, now) ==
    [r \in 1..Len(df) |->
        [id |-> df[r].id, date |-> df[r].date,
         latitude |-> df[r].latitude, longitude |-> df[r].longitude,
         nkill |-> CoerceNkill(df[r].nkill),
         severity |-> Severity(CoerceNkill(df[r].nkill)),
         t_decay |-> TDecay(now, df[r].date)]]

\* sev * td * s_decay for one event at one centroid (in ONE^3 units).
Contribution(cx, cy, row) ==
    LET d_km == haversine_km(cx, cy, 2 * row.longitude, 2 * row.latitude)
        s_decay == ExpNeg(d_km, SPATIAL_SIGMA_KM)
    IN row.severity * row.t_decay * s_decay

RECURSIVE SumContrib(_, _, _, _)
SumContrib(cx, cy, df, n) ==
    IF n = 0 THEN 0 ELSE SumContrib(cx, cy, df, n - 1) + Contribution(cx, cy, df[n])

\* Lines 152-161: the total of one cell; a NaN severity makes every total NaN.
CellTotal(cx, cy, df) ==
    IF \E r \in 1..Len(df) : IsNaN(df[r].severity) THEN NaN
    ELSE SumContrib(cx, cy, df, Len(df))

RawRisk(cells, df) ==
    [k \in 1..Len(cells) |-> CellTotal(cells[k].centroid_x, cells[k].centroid_y, df)]

-----------------------------------------------------------------------------
(* Normalisation, hawkes_model.py 165-170 *)

RECURSIVE SeqMax(_, _)
SeqMax(s, n) == IF n = 0 THEN 0 ELSE Max(s[n], SeqMax(s, n - 1))

\* raw_risk.max() if not raw_risk.isna().all() else 0.0 (max skips NaN; NaN is
\* below every float of the model).
MaxRaw(raw) ==
    IF \A k \in 1..Len(raw) : IsNaN(raw[k]) THEN 0 ELSE SeqMax(raw, Len(raw))

NormalizeBySum(raw) ==
    LET RECURSIVE Total(_)
        Total(n) == IF n = 0 THEN 0 ELSE Total(n - 1) + Max(raw[n], 0)
    IN IF Total(Len(raw)) > 0
       THEN [k \in 1..Len(raw) |-> (Max(raw[k], 0) * ONE) \div Total(Len(raw))]
       ELSE [k \in 1..Len(raw) |-> 0]

Normalize(raw) ==
    LET maxr == MaxRaw(raw)
    IN IF maxr > 0
       THEN [k \in 1..Len(raw) |->
                IF IsNaN(raw[k]) THEN NaN ELSE (raw[k] * ONE) \div maxr]
       ELSE [k \in 1..Len(raw) |-> 0]

-----------------------------------------------------------------------------
(* Zonal reduction, hawkes_model.py 172-191 *)

\* naturalearth_lowres is data outside the repository: three named rectangles
\* stand for it, two sharing a border and one far from every bounding box.
countries ==
    << [name |-> "A", geometry |-> <<0, 0, 1, 3>>],
       [name |-> "B", geometry |-> <<1, 0, 3, 1>>],
       [name |-> "C", geometry |-> <<7, 7, 9, 9>>] >>

\* shapely's intersects: the two closed rectangles share a point.
Intersects(g, z) ==
    /\ g.x1 <= z[3] /\ z[1] <= g.x2
    /\ g.y1 <= z[4] /\ z[2] <= g.y2

\* within: the cell lies inside the polygon.
Within(g, z) ==
    /\ z[1] <= g.x1 /\ g.x2 <= z[3]
    /\ z[2] <= g.y1 /\ g.y2 <= z[4]

JoinPredicateWithin(g, z) == Within(g, z)

JoinPredicate(g, z) == Intersects(g, z)

\* gpd.sjoin(gdf_grid, countries, how='left', predicate='intersects'), kept as
\* the pairs (cell index, country index) of the joined rows that carry a name.
SJoin(cells) ==
    {<<k, c>> \in (1..Len(cells)) \X (1..Len(countries)) :
        JoinPredicate(cells[k], countries[c].geometry)}

RECURSIVE SumRisk(_, _)
SumRisk(ks, risk) ==
    IF ks = {} THEN 0
    ELSE LET k == CHOOSE x \in ks : TRUE
         IN risk[k] + SumRisk(ks \ {k}, risk)

\* joined.groupby('name')['risk'].mean(): one row per name that has joined
\* rows, in the order of the names; then one feature per row.
ZonalFeatures(cells, risk) ==
    LET joined == SJoin(cells)
        named == {c \in 1..Len(countries) : \E k \in 1..Len(cells) : <<k, c>> \in joined}
        RECURSIVE Rows(_)
        Rows(c) ==
            IF c > Len(countries) THEN <<>>
            ELSE IF c \in named
                 THEN LET ks == {k \in 1..Len(cells) : <<k, c>> \in joined}
                      IN << [geometry |-> countries[c].geometry,
                             risk |-> SumRisk(ks, risk) \div Cardinality(ks),
                             name |-> countries[c].name] >> \o Rows(c + 1)
                 ELSE Rows(c + 1)
    IN Rows(1)

\* gdf_grid[['geometry','risk']].__geo_interface__: one feature per cell.
CellFeatures(cells, risk) ==
    [k \in 1..Len(cells) |->
        [geometry |-> <<cells[k].x1, cells[k].y1, cells[k].x2, cells[k].y2>>,
         risk |-> risk[k], name |-> ""]]

-----------------------------------------------------------------------------
(* The values of the variables a specification does not use. *)

NoGrid == [raised |-> FALSE, cells |-> <<>>]

IdleGrid == [pc |-> "idle", bbox |-> <<0, 0, 0, 0>>, cell |-> 1, ret |-> NoGrid]

NoRisk ==
    [pc |-> "idle", df |-> <<>>, bbox |-> <<0, 0, 0, 0>>, cell |-> 1, now |-> 0,
     cells |-> <<>>, raw |-> <<>>, risk |-> <<>>, joined |-> {}, features |-> <<>>]

-----------------------------------------------------------------------------
(* The rows of the events table that the model draws from, in the order of *)
(* their ids.  date is a day; located is FALSE when latitude or longitude   *)
(* is NULL; nkill is NULL or non-numeric when valid is FALSE.              *)

EventPool ==
    << [id |-> 1, date |-> 3, located |-> TRUE, latitude |-> 1, longitude |-> 2,
        nkill |-> [valid |-> TRUE, v |-> 1]],
       [id |-> 2, date |-> 6, located |-> TRUE, latitude |-> 2, longitude |-> 3,
        nkill |-> [valid |-> TRUE, v |-> 0]],
       [id |-> 3, date |-> 4, located |-> FALSE, latitude |-> 0, longitude |-> 0,
        nkill |-> [valid |-> TRUE, v |-> 1]],
       [id |-> 4, date |-> 4, located |-> TRUE, latitude |-> 0, longitude |-> 0,
        nkill |-> [valid |-> TRUE, v |-> 3]],
       [id |-> 5, date |-> 1, located |-> TRUE, latitude |-> 1, longitude |-> 1,
        nkill |-> [valid |-> FALSE, v |-> 0]],
       [id |-> 6, date |-> 4, located |-> TRUE, latitude |-> 0, longitude |-> 1,
        nkill |-> [valid |-> TRUE, v |-> -1]],
       [id |-> 7, date |-> 4, located |-> TRUE, latitude |-> 2, longitude |-> 2,
        nkill |-> [valid |-> TRUE, v |-> -5]] >>

Located == {i \in 1..Len(EventPool) : EventPool[i].located}

\* The rows of the pool whose index is in ids, in the order of the table.
RECURSIVE RowsOf(_, _)
RowsOf(ids, n) ==
    IF n = 0 THEN <<>>
    ELSE IF n \in ids THEN Append(RowsOf(ids, n - 1), EventPool[n])
         ELSE RowsOf(ids, n - 1)

-----------------------------------------------------------------------------
(* The cache, hawkes_model.py 45-64 *)

\* _cache_key as predict_risk calls it (line 106): the SHA-1 of
\* 'predict|bbox=..|cell=..|horizon=..', taken to be free of collisions, so the
\* key is the text that is hashed.
CacheKey(b, horizon_days, cell_size_deg) ==
    [prefix |-> "predict", bbox |-> b, cell |-> cell_size_deg, horizon |-> horizon_days]

\* The file is written in two parts (pickle.dump flushes a large object in
\* several writes).  A part records, for the properties only, the parameters of
\* the call that wrote it (by) and the whole value that call was writing (of).
NoBy == [agg |-> "", lookback_days |-> 0]

Hole == [w |-> FALSE, feats |-> <<>>, by |-> NoBy, of |-> <<>>]

NoFile == [exists |-> FALSE, parts |-> <<Hole, Hole>>]

\* open(path, 'wb'): the file exists and is empty.
Truncated == [exists |-> TRUE, parts |-> <<Hole, Hole>>]

HalfLen(out) == (Len(out) + 1) \div 2

\* pickle.dump(obj, f): the two parts of the pickled features.
Pickle(out, by) ==
    << [w |-> TRUE, feats |-> SubSeq(out, 1, HalfLen(out)), by |-> by, of |-> out],
       [w |-> TRUE, feats |-> SubSeq(out, HalfLen(out) + 1, Len(out)), by |-> by,
        of |-> out] >>

Miss == [hit |-> FALSE, val |-> <<>>]

UnpickleFirstPart(parts) == parts[1].feats

\* pickle.load of a file whose two parts are there.
Unpickle(parts) == parts[1].feats \o parts[2].feats

\* _load_cache: what it may return.  No file, or a file cut short, is None
\* (line 58, or the except of lines 56-57).  A file whose parts come from two
\* different values is either unreadable (None) or read as the two parts
\* put together.
_load_cache(file) ==
    IF ~file.exists \/ ~file.parts[1].w \/ ~file.parts[2].w
    THEN {Miss}
    ELSE IF file.parts[1].of = file.parts[2].of
         THEN {[hit |-> TRUE, val |-> Unpickle(file.parts)]}
         ELSE {Miss, [hit |-> TRUE, val |-> Unpickle(file.parts)]}

-----------------------------------------------------------------------------
(* predict_risk, hawkes_model.py 87-195 *)

World == <<-180, -90, 180, 90>>

\* Lines 95-104.  The bbox argument is the four numbers of a well-formed
\* string, or <<>> when it is absent or does not parse.  (The requests of the
\* model all carry a bounding box: the world at one degree is 64800 cells.)
ResolveBbox(bbox) == IF Len(bbox) = 4 THEN bbox ELSE World

\* Line 112: (utcnow() - timedelta(days=lookback_days)).date(), a day.
SinceDate(now, lookback_days) == (now - lookback_days * TicksPerDay) \div TicksPerDay

\* The WHERE clause of line 113 on one row.
InQueryStrict(row, since_date) == row.date > since_date /\ row.located

InQuery(row, since_date) == row.date >= since_date /\ row.located

\* pd.read_sql(sql, db_engine) on the table holding the rows ids.
ReadSql(ids, since_date) ==
    RowsOf({i \in ids : InQuery(EventPool[i], since_date)}, Len(EventPool))

\* Lines 122-124: the grid with risk 0.0 in every cell.
EmptySurfaceNoCells(cells) == <<>>

EmptySurface(cells) == CellFeatures(cells, [k \in 1..Len(cells) |-> 0])

\* Lines 165-195: the value returned for a scored grid.  dataset tells whether
\* the country polygons can be read (when not, line 190 falls back to the
\* cells).
Reduce(p, cells, df, risk, dataset) ==
    IF p.agg = "country" /\ dataset
    THEN [raised |-> FALSE, path |-> "zonal", df |-> df,
          out |-> ZonalFeatures(cells, risk)]
    ELSE [raised |-> FALSE,
          path |-> IF p.agg = "country" THEN "fallback" ELSE "cell",
          df |-> df, out |-> CellFeatures(cells, risk)]

\* Lines 120-163 on the grid of the request and the cleaned rows; raised when
\* _make_grid raised.
Score(p, grid, rows, df, dataset) ==
    IF grid.raised
    THEN [raised |-> TRUE, path |-> "raised", df |-> <<>>, out |-> <<>>]
    ELSE IF rows = <<>>
    THEN [raised |-> FALSE, path |-> "empty", df |-> <<>>,
          out |-> EmptySurface(grid.cells)]
    ELSE Reduce(p, grid.cells, df, Normalize(RawRisk(grid.cells, df)), dataset)

\* Lines 120-195 after the rows are read: the return path taken, the cleaned
\* rows and the value returned.  now is the second utcnow() (line 136).
Compute(p, b, rows, now, dataset) ==
    Score(p, _make_grid(b[1], b[2], b[3], b[4], p.cell_size_deg), rows,
          Prepare(rows, now), dataset)

-----------------------------------------------------------------------------
(* The state of the service *)

InitClock == 4 * TicksPerDay

Threads == 1..NumThreads

Params(boxes, cells, aggs, lookbacks) ==
    [horizon_days : {7}, bbox : boxes, agg : aggs, cell_size_deg : cells,
     lookback_days : lookbacks]

\* The requests of the sequential specification and of the concurrent one.
SeqRequests == Params({<<0, 0, 3, 2>>}, {-1, 0, 2}, {"cell", "country"}, {1, 3})

ConcRequests == Params({<<0, 0, 3, 2>>}, {2}, {"cell", "country"}, {1})

AllRequests == SeqRequests \cup ConcRequests

KeyOf(p) == CacheKey(ResolveBbox(p.bbox), p.horizon_days, p.cell_size_deg)

AllKeys == {KeyOf(p) : p \in AllRequests}

NoParams ==
    [horizon_days |-> 0, bbox |-> <<>>, agg |-> "", cell_size_deg |-> 1,
     lookback_days |-> 0]

NoFirst == [set |-> FALSE, val |-> <<>>, clean |-> FALSE]

\* A call: where it is (pc), its arguments, its locals, and for the properties
\* what it found when it started (expect: first[p] then) and whose parts it was
\* served from the cache (src).
IdleReq ==
    [pc |-> "idle", p |-> NoParams, key |-> CacheKey(<<>>, 0, 0), hit |-> FALSE,
     src |-> <<Hole, Hole>>, queried |-> FALSE, failed |-> FALSE, store |-> {},
     now |-> 0, since |-> 0, rows |-> <<>>, df |-> <<>>, path |-> "", out |-> <<>>,
     expect |-> NoFirst]

InitService ==
    /\ clock = InitClock
    /\ events = {}
    /\ cache = [k \in AllKeys |-> NoFile]
    /\ req = [t \in Threads |-> IdleReq]
    /\ first = [p \in AllRequests |-> NoFirst]
    /\ ncalls = 0

\* Time passes.
Tick ==
    /\ clock < InitClock + MaxTicks
    /\ clock' = clock + 1
    /\ UNCHANGED <<events, cache, req, first, ncalls, gridCall, riskCall>>

\* A row is added to the events table (rows get their ids in order).
InsertEvent ==
    /\ Cardinality(events) < Min(MaxStored, Len(EventPool))
    /\ events' = events \cup {Cardinality(events) + 1}
    /\ UNCHANGED <<clock, cache, req, first, ncalls, gridCall, riskCall>>

\* The record of a call that starts now with arguments p.
Started(p) ==
    [IdleReq EXCEPT !.pc = "miss", !.p = p, !.key = KeyOf(p), !.now = clock,
                    !.expect = first[p]]

\* The record of a call served from the cache.
ServedFrom(r, file, val) ==
    [r EXCEPT !.pc = "done", !.hit = TRUE, !.src = file.parts, !.path = "hit",
              !.out = val]

\* Lines 112-118: the rows read, or none when read_sql raises.
Fetched(r, failed) ==
    LET since == SinceDate(clock, r.p.lookback_days)
    IN [r EXCEPT !.pc = "fetched", !.queried = TRUE, !.failed = failed,
                 !.store = events, !.now = clock, !.since = since,
                 !.rows = IF failed THEN <<>> ELSE ReadSql(events, since)]

\* Lines 120-193 run at time now: the value to save, or the exception of
\* _make_grid.
WithResult(r, c) ==
    [r EXCEPT !.pc = IF c.raised THEN "raised" ELSE "save",
              !.path = c.path, !.df = c.df, !.out = c.out]

Computed(r, now, dataset) ==
    WithResult(r, Compute(r.p, ResolveBbox(r.p.bbox), r.rows, now, dataset))

\* The choices that matter to a call that has read its rows: whether the
\* clock moves before line 136, whether the country polygons can be read.
Delays(r) == IF r.rows # <<>> /\ clock < InitClock + MaxTicks THEN {0, 1} ELSE {0}

Datasets(r) == IF r.rows # <<>> /\ r.p.agg = "country" THEN BOOLEAN ELSE {TRUE}

\* The call of thread t has returned a value.
Returned(t) == req[t].pc = "done"

\* The call of thread t has ended, by a return or by an exception.
Ended(t) == req[t].pc \in {"done", "raised"}

ByOf(r) == [agg |-> r.p.agg, lookback_days |-> r.p.lookback_days]

\* Another call has the file of r's key open for writing.
OtherWriter(r, t) ==
    \E u \in Threads \ {t} : req[u].pc \in {"w1", "w2"} /\ req[u].key = r.key

\* History: a call with arguments r.p has returned r.out after a miss.  The
\* entry is clean when it holds that value whole and no other call is writing it.
FirstAfterReturn(r, t, file) ==
    IF first[r.p].set THEN first
    ELSE [first EXCEPT ![r.p] =
            [set |-> TRUE, val |-> r.out,
             clean |-> /\ file.parts = Pickle(r.out, ByOf(r))
                       /\ ~OtherWriter(r, t)]]

\* History: the entry of key is being written by a call that started before.
Dirtied(f, key) ==
    [p \in AllRequests |->
        IF KeyOf(p) = key /\ f[p].set THEN [f[p] EXCEPT !.clean = FALSE] ELSE f[p]]

-----------------------------------------------------------------------------
(* Spec: the calls of predict_risk run one after the other, each one whole. *)

\* _save_cache done whole, and the return.
Saved(r) == [r EXCEPT !.pc = "done"]

predict_risk ==
    /\ ncalls < MaxCalls
    /\ ncalls' = ncalls + 1
    /\ \E p \in SeqRequests :
        \E got \in _load_cache(cache[KeyOf(p)]) :
            IF got.hit
            THEN /\ req' = [req EXCEPT ![1] =
                               ServedFrom(Started(p), cache[KeyOf(p)], got.val)]
                 /\ UNCHANGED <<clock, cache, first>>
            ELSE \E failed \in BOOLEAN :
                 \E f \in {Fetched(Started(p), failed)} :
                 \E d \in Delays(f), dataset \in Datasets(f) :
                 \E r \in {Computed(f, clock + d, dataset)} :
                    /\ clock' = clock + d
                    /\ IF r.pc = "raised"
                       THEN /\ req' = [req EXCEPT ![1] = r]
                            /\ UNCHANGED <<cache, first>>
                       ELSE \E file \in {[exists |-> TRUE,
                                          parts |-> Pickle(r.out, ByOf(r))]} :
                            /\ req' = [req EXCEPT ![1] = Saved(r)]
                            /\ cache' = [cache EXCEPT ![r.key] = file]
                            /\ first' = FirstAfterReturn(r, 1, file)
    /\ UNCHANGED <<events, gridCall, riskCall>>

Init == InitService /\ gridCall = IdleGrid /\ riskCall = NoRisk

Next == predict_risk \/ Tick \/ InsertEvent

Spec == Init /\ [][Next]_vars

-----------------------------------------------------------------------------
(* SpecConc: the worker threads run predict_risk concurrently; a call takes *)
(* one step for each access to the cache directory and the events table.   *)
(* The calls overlap within one instant: the clock stands still, the table *)
(* grows.                                                                  *)

\* Lines 95-109: the arguments are resolved, the key computed and the cache
\* read; on a hit the call returns.
Start(t) ==
    /\ req[t].pc = "idle"
    /\ ncalls < MaxConcCalls
    /\ ncalls' = ncalls + 1
    /\ \E p \in ConcRequests :
        \E got \in _load_cache(cache[KeyOf(p)]) :
            req' = [req EXCEPT ![t] =
                       IF got.hit
                       THEN ServedFrom(Started(p), cache[KeyOf(p)], got.val)
                       ELSE Started(p)]
    /\ UNCHANGED <<clock, events, cache, first, gridCall, riskCall>>

\* Lines 112-118.
Fetch(t) ==
    /\ req[t].pc = "miss"
    /\ \E failed \in BOOLEAN : req' = [req EXCEPT ![t] = Fetched(req[t], failed)]
    /\ UNCHANGED <<clock, events, cache, first, ncalls, gridCall, riskCall>>

\* Lines 120-193, up to the call of _save_cache.
Score_(t) ==
    /\ req[t].pc = "fetched"
    /\ \E dataset \in Datasets(req[t]) :
        req' = [req EXCEPT ![t] = Computed(req[t], clock, dataset)]
    /\ UNCHANGED <<clock, events, cache, first, ncalls, gridCall, riskCall>>

\* _save_cache, line 63: open(path, 'wb') truncates the file.
SaveOpen(t) ==
    /\ req[t].pc = "save"
    /\ cache' = [cache EXCEPT ![req[t].key] = Truncated]
    /\ req' = [req EXCEPT ![t].pc = "w1"]
    /\ first' = Dirtied(first, req[t].key)
    /\ UNCHANGED <<clock, events, ncalls, gridCall, riskCall>>

\* _save_cache, line 64: the first part of the pickle reaches the file.
SavePart1(t) ==
    /\ req[t].pc = "w1"
    /\ cache' = [cache EXCEPT ![req[t].key].exists = TRUE,
                              ![req[t].key].parts[1] =
                                    Pickle(req[t].out, ByOf(req[t]))[1]]
    /\ req' = [req EXCEPT ![t].pc = "w2"]
    /\ first' = Dirtied(first, req[t].key)
    /\ UNCHANGED <<clock, events, ncalls, gridCall, riskCall>>

\* _save_cache, line 64: the second part reaches the file, which is closed;
\* predict_risk returns.
SavePart2(t) ==
    /\ req[t].pc = "w2"
    /\ \E file \in {[cache[req[t].key] EXCEPT
                        !.exists = TRUE,
                        !.parts[2] = Pickle(req[t].out, ByOf(req[t]))[2]]} :
        /\ cache' = [cache EXCEPT ![req[t].key] = file]
        /\ \E f \in {Dirtied(first, req[t].key)} :
              first' = IF f[req[t].p].set THEN f
                       ELSE [f EXCEPT ![req[t].p] =
                               [set |-> TRUE, val |-> req[t].out,
                                clean |-> /\ file.parts = Pickle(req[t].out, ByOf(req[t]))
                                          /\ ~OtherWriter(req[t], t)]]
    /\ req' = [req EXCEPT ![t].pc = "done"]
    /\ UNCHANGED <<clock, events, ncalls, gridCall, riskCall>>

\* The response is sent; the thread is free for the next request.
Finish(t) ==
    /\ Ended(t)
    /\ req' = [req EXCEPT ![t] = IdleReq]
    /\ UNCHANGED <<clock, events, cache, first, ncalls, gridCall, riskCall>>

NextConc ==
    \/ \E t \in Threads :
          \/ Start(t) \/ Fetch(t) \/ Score_(t)
          \/ SaveOpen(t) \/ SavePart1(t) \/ SavePart2(t) \/ Finish(t)
    \/ InsertEvent

SpecConc == Init /\ [][NextConc]_vars

-----------------------------------------------------------------------------
(* C1 *)

\* C1: a result computed for one value of agg / lookbackDays is never returned
\* from the cache to a request with another value: whenever a call (with a
\* positive cell size) is served from the cache, the entry was written by a
\* call with the same agg and the same lookback_days.
C1_KeyCoversParameters ==
    \A t \in Threads :
        Returned(t) /\ req[t].hit /\ req[t].p.cell_size_deg > 0 =>
            /\ req[t].src[1].by.agg = req[t].p.agg
            /\ req[t].src[1].by.lookback_days = req[t].p.lookback_days

-----------------------------------------------------------------------------
(* C2 *)

\* The call of thread t has arguments with which an earlier call returned a
\* value after a miss.
Repeats(t) == req[t].pc # "idle" /\ req[t].expect.set

-----------------------------------------------------------------------------
(* C7 *)

\* No call is running.
Quiet == \A t \in Threads : req[t].pc \in {"idle", "done", "raised"}

\* C7: once all requests have finished, the entry of every key is the whole
\* value written by one of them, never cut short and never the parts of two
\* writes; and a call served from the cache is served the whole value one call
\* wrote.
C7_LastWriterWins ==
    /\ Quiet =>
          \A k \in AllKeys :
              cache[k].exists =>
                  /\ cache[k].parts[1].w /\ cache[k].parts[2].w
                  /\ cache[k].parts[1].of = cache[k].parts[2].of
    /\ \A t \in Threads :
          Returned(t) /\ req[t].hit => req[t].src[1].of = req[t].src[2].of

-----------------------------------------------------------------------------
(* C3 *)

\* C3: a call with cell_size_deg <= 0 is rejected with an error: it returns no
\* surface and nothing is stored in the cache under its key.
C3_NonPositiveCellRejected ==
    \A t \in Threads :
        Ended(t) /\ req[t].p.cell_size_deg <= 0 =>
            /\ req[t].pc = "raised"
            /\ ~cache[req[t].key].exists

-----------------------------------------------------------------------------
(* C4 *)

\* The call of thread t missed the cache and read no rows: the table held none
\* in the window, or read_sql raised.
NoRowsRead(t) ==
    /\ Ended(t) /\ ~req[t].hit /\ req[t].queried
    /\ req[t].rows = <<>>

BoxOf(t) == ResolveBbox(req[t].p.bbox)

\* C4: on a cache miss, when the query returns no rows or raises, a call with a
\* valid bounding box and a positive cell size does not raise and returns one
\* feature for every cell of the grid, in the order of the grid, each with risk
\* exactly 0.0, whatever agg is.
C4_EmptyEventsZeroSurface ==
    \A t \in Threads :
        NoRowsRead(t) /\ req[t].p.cell_size_deg > 0
        /\ BoxOf(t)[1] < BoxOf(t)[3] /\ BoxOf(t)[2] < BoxOf(t)[4] =>
            LET b == BoxOf(t)
                cells == _make_grid(b[1], b[2], b[3], b[4],
                                    req[t].p.cell_size_deg).cells
            IN /\ req[t].pc = "done"
               /\ Len(req[t].out) = Len(cells) /\ Len(cells) > 0
               /\ \A k \in 1..Len(cells) :
                     /\ req[t].out[k].risk = 0
                     /\ req[t].out[k].geometry =
                           <<cells[k].x1, cells[k].y1, cells[k].x2, cells[k].y2>>

\* read_sql raised on a table that holds rows, in country mode.
C4_Witness ==
    \E t \in Threads :
        /\ NoRowsRead(t) /\ req[t].failed /\ req[t].store # {}
        /\ req[t].p.agg = "country" /\ req[t].p.cell_size_deg > 0
        /\ Len(req[t].out) = 2

-----------------------------------------------------------------------------
(* C8 *)

\* The call of thread t missed the cache, its query went through and it has
\* returned a surface.
QueryDone(t) ==
    /\ Returned(t) /\ req[t].queried /\ ~req[t].failed
    /\ req[t].p.cell_size_deg > 0

\* The rows of the table (as it was when thread t read it) that carry both
\* coordinates.
StoredLocated(t) == {i \in req[t].store : EventPool[i].located}

RowIds(rows) == {rows[k].id : k \in 1..Len(rows)}

DayOfWindowStart(t) ==
    CHOOSE d \in 0..(req[t].now \div TicksPerDay) :
        /\ d * TicksPerDay <= req[t].now - req[t].p.lookback_days * TicksPerDay
        /\ (d + 1) * TicksPerDay > req[t].now - req[t].p.lookback_days * TicksPerDay

-----------------------------------------------------------------------------
(* SpecRisk: lines 128-191 of predict_risk applied to rows already read:   *)
(* every subset of the located rows of the pool, on two bounding boxes and *)
(* two cell sizes.                                                         *)

RiskBoxes == {<<0, 0, 3, 2>>, <<1, 0, 3, 3>>}

RiskCellSizes == {1, 2}

RiskNows == {4 * TicksPerDay, 5 * TicksPerDay + 1}

InitRisk ==
    /\ InitService
    /\ gridCall = IdleGrid
    /\ \E ids \in SUBSET Located, b \in RiskBoxes, c \in RiskCellSizes,
          now \in RiskNows :
        /\ ids # {}
        /\ riskCall = [NoRisk EXCEPT !.pc = "rows",
                          !.df = RowsOf(ids, Len(EventPool)),
                          !.bbox = b, !.cell = c, !.now = now]

\* Lines 128-170: clean the rows, weigh them, build the grid, total each cell
\* and normalise.
ScoreRows ==
    /\ riskCall.pc = "rows"
    /\ LET df == Prepare(riskCall.df, riskCall.now)
           b == riskCall.bbox
           cells == _make_grid(b[1], b[2], b[3], b[4], riskCall.cell).cells
           raw == RawRisk(cells, df)
       IN riskCall' = [riskCall EXCEPT !.pc = "scored", !.df = df,
                          !.cells = cells, !.raw = raw, !.risk = Normalize(raw),
                          !.features = CellFeatures(cells, Normalize(raw))]
    /\ UNCHANGED <<gridCall, svars>>

\* Lines 173-189 when the country polygons can be read.
ZonalReduce ==
    /\ riskCall.pc = "scored"
    /\ riskCall' = [riskCall EXCEPT !.pc = "zonal",
                       !.joined = SJoin(riskCall.cells),
                       !.features = ZonalFeatures(riskCall.cells, riskCall.risk)]
    /\ UNCHANGED <<gridCall, svars>>

NextRisk == ScoreRows \/ ZonalReduce

SpecRisk == InitRisk /\ [][NextRisk]_vars

-----------------------------------------------------------------------------
(* C5 *)

RiskScored == riskCall.pc \in {"scored", "zonal"} /\ Len(riskCall.cells) > 0

\* C5: for a non-empty grid whose raw scores are numbers, with m the largest
\* raw score: if m > 0 every cell's risk is raw / m (to the hundredth), every
\* risk lies in [0, 1] and some cell's risk is exactly 1.0; if m = 0 every
\* cell's risk is exactly 0.0.
C5_Normalized ==
    RiskScored /\ (\A k \in 1..Len(riskCall.raw) : ~IsNaN(riskCall.raw[k])) =>
        LET raw == riskCall.raw
            risk == riskCall.risk
            ks == 1..Len(raw)
            m == raw[CHOOSE k \in ks : \A j \in ks : raw[j] <= raw[k]]
        IN /\ Len(risk) = Len(raw)
           /\ m > 0 =>
                /\ \A k \in ks : risk[k] * m <= raw[k] * ONE
                                 /\ raw[k] * ONE < (risk[k] + 1) * m
                /\ \A k \in ks : 0 <= risk[k] /\ risk[k] <= ONE
                /\ \E k \in ks : risk[k] = ONE
           /\ m = 0 => \A k \in ks : risk[k] = 0

\* Several events scored on a grid where a cell falls strictly between 0 and 1.
C5_Witness ==
    /\ RiskScored
    /\ Len(riskCall.df) >= 2
    /\ \E k \in 1..Len(riskCall.risk) : riskCall.risk[k] = ONE
    /\ \E k \in 1..Len(riskCall.risk) : 0 < riskCall.risk[k] /\ riskCall.risk[k] < ONE

-----------------------------------------------------------------------------
(* C9 *)

\* C9: every event's severity is sqrt(1 + max(0, fatalities)) (to the
\* hundredth), the fatality count being 0 when missing or non-numeric; so it is
\* a number >= 1 for every input, a negative count giving exactly 1.0.
C9_SeverityFormula ==
    riskCall.pc \in {"scored", "zonal"} =>
        \A r \in 1..Len(riskCall.df) :
            LET sev == riskCall.df[r].severity
                arg == (1 + Max(0, riskCall.df[r].nkill)) * ONE * ONE
            IN /\ sev >= ONE
               /\ sev * sev <= arg /\ arg < (sev + 1) * (sev + 1)
               /\ riskCall.df[r].nkill < 0 => sev = ONE

-----------------------------------------------------------------------------
(* C10 *)

\* The polygons cell k is joined to.
ZonesOf(k) == {c \in 1..Len(countries) : <<k, c>> \in riskCall.joined}

\* C10 as stated: in zonal mode every grid cell is associated with zero or one
\* named polygon, never with two or more.
C10_AtMostOneZone ==
    riskCall.pc = "zonal" =>
        \A k \in 1..Len(riskCall.cells) : Cardinality(ZonesOf(k)) <= 1

\* C10 as amended: a cell is associated with every named polygon it intersects
\* (zero, one or several); the polygons emitted are those that intersect some
\* cell, each once, and each one's risk is the mean (to the hundredth) of the
\* risks of exactly the cells that intersect it.
C10_ZonalMean ==
    riskCall.pc = "zonal" =>
        LET cells == riskCall.cells
            fs == riskCall.features
            CellsOf(z) == {k \in 1..Len(cells) : Intersects(cells[k], z)}
        IN /\ \A c \in 1..Len(countries) :
                 Cardinality({i \in 1..Len(fs) : fs[i].name = countries[c].name})
                     = IF CellsOf(countries[c].geometry) = {} THEN 0 ELSE 1
           /\ \A i \in 1..Len(fs) :
                 LET ks == CellsOf(fs[i].geometry)
                     total == SumRisk(ks, riskCall.risk)
                 IN /\ \E c \in 1..Len(countries) :
                          /\ countries[c].name = fs[i].name
                          /\ countries[c].geometry = fs[i].geometry
                    /\ ks # {}
                    /\ fs[i].risk * Cardinality(ks) <= total
                    /\ total < (fs[i].risk + 1) * Cardinality(ks)

\* A cell joined to two polygons, both of them emitted with different means.
C10_Witness ==
    /\ riskCall.pc = "zonal"
    /\ \E k \in 1..Len(riskCall.cells) : Cardinality(ZonesOf(k)) = 2
    /\ Len(riskCall.features) = 2
    /\ riskCall.features[1].risk # riskCall.features[2].risk

-----------------------------------------------------------------------------
(* SpecGrid: _make_grid applied to every bounding box and cell size of the *)
(* bounds.                                                                 *)

Coords == 0..MaxCoord

GridCellSizes == (-1)..MaxCell

InitGrid ==
    /\ InitService
    /\ riskCall = NoRisk
    /\ \E minx \in Coords, miny \in Coords, maxx \in Coords, maxy \in Coords,
       c \in GridCellSizes :
        gridCall = [pc |-> "call", bbox |-> <<minx, miny, maxx, maxy>>,
                    cell |-> c, ret |-> NoGrid]

MakeGrid ==
    /\ gridCall.pc = "call"
    /\ gridCall' = [gridCall EXCEPT
            !.pc = "returned",
            !.ret = _make_grid(gridCall.bbox[1], gridCall.bbox[2],
                               gridCall.bbox[3], gridCall.bbox[4],
                               gridCall.cell)]
    /\ UNCHANGED <<riskCall, svars>>

NextGrid == MakeGrid

SpecGrid == InitGrid /\ [][NextGrid]_vars

-----------------------------------------------------------------------------
(* C6 *)

GridArgsValid ==
    /\ gridCall.bbox[1] < gridCall.bbox[3]
    /\ gridCall.bbox[2] < gridCall.bbox[4]
    /\ gridCall.cell > 0

\* The number of steps of length c needed to span w > 0: the least n with
\* n * c >= w.
StepsToSpan(w, c) == CHOOSE n \in 1..w : n * c >= w /\ (n - 1) * c < w

\* The unit square whose lower-left corner is (x, y) lies inside cell g.
UnitIn(x, y, g) == g.x1 <= x /\ x + 1 <= g.x2 /\ g.y1 <= y /\ y + 1 <= g.y2

\* C6: for a bounding box with minLon < maxLon and minLat < maxLat and a cell
\* size > 0, _make_grid returns ceil(width/cell) * ceil(height/cell) cells, each
\* a proper rectangle inside the box (so the far edges are clipped), and every
\* unit square of the box lies in exactly one cell: the cells cover the box with
\* no gap and no overlap of interiors.  A box of zero width or height yields an
\* empty grid.
C6_GridTilesBox ==
    gridCall.pc = "returned" /\ gridCall.cell > 0 =>
        LET b == gridCall.bbox
            cells == gridCall.ret.cells
        IN /\ ~gridCall.ret.raised
           /\ (b[1] = b[3] \/ b[2] = b[4]) => Len(cells) = 0
           /\ GridArgsValid =>
                /\ Len(cells) = StepsToSpan(b[3] - b[1], gridCall.cell)
                                * StepsToSpan(b[4] - b[2], gridCall.cell)
                /\ \A k \in 1..Len(cells) :
                      /\ b[1] <= cells[k].x1 /\ cells[k].x1 < cells[k].x2
                      /\ cells[k].x2 <= b[3]
                      /\ b[2] <= cells[k].y1 /\ cells[k].y1 < cells[k].y2
                      /\ cells[k].y2 <= b[4]
                /\ \A x \in b[1]..(b[3] - 1), y \in b[2]..(b[4] - 1) :
                      Cardinality({k \in 1..Len(cells) :
                                      UnitIn(x, y, cells[k])}) = 1

\* A box that the cell size does not divide: the last column is clipped.
C6_Witness ==
    /\ gridCall.pc = "returned"
    /\ gridCall.bbox = <<0, 0, 3, 2>>
    /\ gridCall.cell = 2
    /\ Len(gridCall.ret.cells) = 2
    /\ gridCall.ret.cells[2].x2 - gridCall.ret.cells[2].x1 = 1

=============================================================================
